---- MODULE Spec2Model ----
(***************************************************************************)
(* Duplicate-case detection and resolution of the Desaparecidos backend.   *)
(*                                                                         *)
(* The module models the routes POST /detect and PATCH /:id/resolve of the *)
(* duplicates router, the DuplicateCase table with its unique index and    *)
(* its cascading foreign keys, and the two case-management routes that     *)
(* change which MissingPerson rows exist or how they are listed (soft      *)
(* delete and restore).  Every awaited Prisma call is one step, so that    *)
(* requests interleave where the event loop lets them interleave.          *)
(*                                                                         *)
(* Numbers: the scores are JavaScript doubles in the code.  Here they are  *)
(* exact rationals <<n, d>> with d > 0, so rounding is not modelled.       *)
(***************************************************************************)
EXTENDS Integers, Sequences, FiniteSets, TLC

(***************************************************************************)
(* Bounds of the model.                                                    *)
(***************************************************************************)
\* requests started in one behaviour of Spec
MaxDetects == 2
MaxResolves == 2
MaxRequests == 3
\* requests started in one behaviour of SpecSeq
SeqDetects == 2
SeqResolves == 2
\* requests started in one behaviour of SpecRestore
RestoreDetects == 3
RestoreResolves == 2
\* SpecTies: passes started
TieDetects == 2
\* SpecEdit: requests started, and edits and approvals made
EditDetects == 2
EditResolves == 1
EditChanges == 2
\* SpecNames: the length of a name, the edits of names and the passes
MaxLen == 3
NameEdits == 2
NameDetects == 1

(***************************************************************************)
(* Rationals.                                                              *)
(***************************************************************************)
RECURSIVE GCD(_, _)
GCD(a, b) == IF b = 0 THEN a ELSE GCD(b, a % b)

Abs(x) == IF x < 0 THEN 0 - x ELSE x

\* n/d in lowest terms, d > 0
Rat(n, d) ==
  LET g == GCD(Abs(n), d) IN
  IF n = 0 THEN <<0, 1>> ELSE <<n \div g, d \div g>>

RAdd(x, y) == Rat(x[1] * y[2] + y[1] * x[2], x[2] * y[2])
RMul(x, y) == Rat(x[1] * y[1], x[2] * y[2])
RDiv(x, y) == Rat(x[1] * y[2], x[2] * y[1])
RGeq(x, y) == x[1] * y[2] >= y[1] * x[2]
RGt(x, y) == x[1] * y[2] > y[1] * x[2]
RZero == <<0, 1>>
ROne == <<1, 1>>

(***************************************************************************)
(* Strings are sequences of one-character strings.                         *)
(***************************************************************************)
\* the null of a string column or of an absent string of a request body
Null == "null"
\* the null of the nullable integer column age
NoAge == 0 - 1
\* the null of a time stamp column
NoTime == 0

LowerOf(ch) ==
  CASE ch = "A" -> "a"
    [] ch = "B" -> "b"
    [] OTHER -> ch

toLowerCase(s) == [k \in 1..Len(s) |-> LowerOf(s[k])]

Min2(a, b) == IF a <= b THEN a ELSE b
Min3(a, b, c) == Min2(a, Min2(b, c))

\* a distance that only substitutes: the positions that differ, plus the
\* difference of the lengths
SubstitutionDistance(str1, str2) ==
  LET short == Min2(Len(str1), Len(str2))
  IN Cardinality({k \in 1..short : str1[k] # str2[k]})
     + (Len(str1) + Len(str2) - 2 * short)

\* alerts.ts levenshteinDistance: matrix[i][j], i over str2, j over str1
levenshteinDistance(str1, str2) ==
  LET matrix[i \in 0..Len(str2), j \in 0..Len(str1)] ==
        IF i = 0 THEN j
        ELSE IF j = 0 THEN i
        ELSE IF str2[i] = str1[j] THEN matrix[i - 1, j - 1]
        ELSE Min3(matrix[i - 1, j - 1] + 1, matrix[i, j - 1] + 1, matrix[i - 1, j] + 1)
  IN matrix[Len(str2), Len(str1)]

\* a similarity without the case of two empty strings
SimilarityZeroWhenEmpty(str1, str2) ==
  LET longer == IF Len(str1) > Len(str2) THEN str1 ELSE str2
      shorter == IF Len(str1) > Len(str2) THEN str2 ELSE str1
  IN IF Len(longer) = 0 THEN RZero
     ELSE Rat(Len(longer) - levenshteinDistance(longer, shorter), Len(longer))

\* a similarity relative to the length of the first string
SimilarityOverFirst(str1, str2) ==
  IF Len(str1) = 0 THEN (IF Len(str2) = 0 THEN ROne ELSE RZero)
  ELSE Rat(Len(str1) - Min2(Len(str1), levenshteinDistance(str1, str2)), Len(str1))

\* alerts.ts calculateSimilarity
calculateSimilarity(str1, str2) ==
  LET longer == IF Len(str1) > Len(str2) THEN str1 ELSE str2
      shorter == IF Len(str1) > Len(str2) THEN str2 ELSE str1
  IN IF Len(longer) = 0 THEN ROne
     ELSE Rat(Len(longer) - levenshteinDistance(longer, shorter), Len(longer))

(***************************************************************************)
(* Pairwise score of two MissingPerson rows (alerts.ts 155-189).           *)
(* A field takes part when both values are truthy in JavaScript: a string  *)
(* that is not empty, a number that is neither null nor 0.  missingDate is *)
(* a Date object and always truthy (the column is NOT NULL).               *)
(***************************************************************************)
TruthyString(s) == Len(s) > 0
TruthyNumber(n) == n # NoAge /\ n # 0

NameWeight == Rat(4, 10)
DateWeight == Rat(2, 10)
LocationWeight == Rat(2, 10)
AgeWeight == Rat(2, 10)

nameSimilarity(case1, case2) ==
  calculateSimilarity(toLowerCase(case1.fullName), toLowerCase(case2.fullName))

\* a date similarity without the test daysDiff <= 30
dateSimilarityUnclamped(case1, case2) ==
  Rat(30 - Abs(case1.missingDate - case2.missingDate), 30)

\* missingDate is counted in whole days
dateSimilarity(case1, case2) ==
  LET daysDiff == Abs(case1.missingDate - case2.missingDate)
  IN IF daysDiff <= 30 THEN Rat(30 - daysDiff, 30) ELSE RZero

locationSimilarity(case1, case2) ==
  IF case1.province = case2.province THEN ROne ELSE RZero

ageSimilarity(case1, case2) ==
  LET ageDiff == Abs(case1.age - case2.age)
  IN IF ageDiff <= 5 THEN Rat(5 - ageDiff, 5) ELSE RZero

NameApplies(case1, case2) == TruthyString(case1.fullName) /\ TruthyString(case2.fullName)
DateApplies(case1, case2) == TRUE
LocationApplies(case1, case2) == TruthyString(case1.province) /\ TruthyString(case2.province)
AgeApplies(case1, case2) == TruthyNumber(case1.age) /\ TruthyNumber(case2.age)

\* the running sum "score" of the code
ScoreSum(case1, case2) ==
  LET s1 == IF NameApplies(case1, case2)
            THEN RMul(nameSimilarity(case1, case2), NameWeight) ELSE RZero
      s2 == IF DateApplies(case1, case2)
            THEN RMul(dateSimilarity(case1, case2), DateWeight) ELSE RZero
      s3 == IF LocationApplies(case1, case2)
            THEN RMul(locationSimilarity(case1, case2), LocationWeight) ELSE RZero
      s4 == IF AgeApplies(case1, case2)
            THEN RMul(ageSimilarity(case1, case2), AgeWeight) ELSE RZero
  IN RAdd(RAdd(s1, s2), RAdd(s3, s4))

\* the running sum "factors" of the code
Factors(case1, case2) ==
  LET f1 == IF NameApplies(case1, case2) THEN NameWeight ELSE RZero
      f2 == IF DateApplies(case1, case2) THEN DateWeight ELSE RZero
      f3 == IF LocationApplies(case1, case2) THEN LocationWeight ELSE RZero
      f4 == IF AgeApplies(case1, case2) THEN AgeWeight ELSE RZero
  IN RAdd(RAdd(f1, f2), RAdd(f3, f4))

\* a score without the division by the weights that took part
UnnormalisedScore(case1, case2) == ScoreSum(case1, case2)

finalScore(case1, case2) ==
  IF RGt(Factors(case1, case2), RZero)
  THEN RDiv(ScoreSum(case1, case2), Factors(case1, case2))
  ELSE RZero


(***************************************************************************)
(* The tables.                                                             *)
(***************************************************************************)
CaseIds == {"A", "B", "C"}
Detectors == {"d1", "d2"}
Resolvers == {"r1", "r2"}

PENDENTE == "PENDENTE"
CONFIRMADO == "CONFIRMADO"
REJEITADO == "REJEITADO"
RESOLVIDO == "RESOLVIDO"
DuplicateStatus == {PENDENTE, CONFIRMADO, REJEITADO, RESOLVIDO}

\* a request body without threshold
NoThreshold == <<>>
\* the threshold a request body may carry
ThresholdInputs == {NoThreshold, <<0, 1>>, <<9, 10>>}
\* the notes a request body may carry; Null is a body without resolutionNotes
NotesInputs == {Null, "duplicado"}
\* the status values a request body may carry
StatusInputs == DuplicateStatus

DefaultThreshold == Rat(7, 10)

\* The MissingPerson rows at the start: three approved cases, listed A, B, C
\* by createdAt desc.  A and B score 9/10, A and C 17/40, B and C 1/2.
InitialCases ==
  [c \in CaseIds |->
     CASE c = "A" -> [fullName |-> <<"A", "n", "a">>, age |-> 30, missingDate |-> 10,
                      province |-> <<"L">>, approved |-> TRUE, isDeleted |-> FALSE,
                      createdAt |-> 3]
       [] c = "B" -> [fullName |-> <<"a", "n", "a">>, age |-> 31, missingDate |-> 19,
                      province |-> <<"L">>, approved |-> TRUE, isDeleted |-> FALSE,
                      createdAt |-> 2]
       [] c = "C" -> [fullName |-> <<"b", "o", "b">>, age |-> 0, missingDate |-> 19,
                      province |-> <<"L">>, approved |-> TRUE, isDeleted |-> FALSE,
                      createdAt |-> 1]]

VARIABLES
  cases,          \* MissingPerson: a function from the ids that have a row to the row
  deletedCases,   \* DeletedCase, keyed by its unique caseId
  registry,       \* DuplicateCase: the set of rows
  auditLogs,      \* AuditLog rows written by the resolve handler, oldest first
  nextId,         \* the next DuplicateCase id
  clock,          \* the last time stamp handed out
  det,            \* the POST /detect request of each moderator
  res,            \* the PATCH /:id/resolve request of each moderator
  detectsStarted, \* requests started so far
  resolvesStarted,
  wasResolved     \* history: ordered pairs that have had a status other than PENDENTE

vars == <<cases, deletedCases, registry, auditLogs, nextId, clock, det, res,
          detectsStarted, resolvesStarted, wasResolved>>

NoRow ==
  [id |-> 0, originalCaseId |-> Null, duplicateCaseId |-> Null, similarityScore |-> RZero,
   detectedBy |-> Null, detectedAt |-> NoTime, status |-> PENDENTE, resolvedBy |-> Null,
   resolvedAt |-> NoTime, resolutionNotes |-> Null]

IdleDetect ==
  [pc |-> "idle", threshold |-> NoThreshold, cases |-> <<>>, duplicates |-> <<>>,
   idx |-> 0, createdDuplicates |-> <<>>, error |-> Null,
   startRegistry |-> {}, endRegistry |-> {}, prev |-> <<>>]

IdleResolve ==
  [pc |-> "idle", id |-> 0, status |-> Null, resolutionNotes |-> Null,
   deleteDuplicate |-> FALSE, duplicate |-> NoRow, duplicateCaseName |-> <<>>,
   updated |-> NoRow, error |-> Null, failedCall |-> Null]

Init ==
  /\ cases = InitialCases
  /\ deletedCases = <<>>
  /\ registry = {}
  /\ auditLogs = <<>>
  /\ nextId = 1
  /\ clock = 3
  /\ det = [d \in Detectors |-> IdleDetect]
  /\ res = [r \in Resolvers |-> IdleResolve]
  /\ detectsStarted = 0
  /\ resolvesStarted = 0
  /\ wasResolved = {}

(***************************************************************************)
(* POST /detect                                                            *)
(***************************************************************************)
\* prisma.missingPerson.findMany({where: {approved: true}, orderBy: {createdAt: 'desc'}})
\* The rows of S in every order: the sequences that hold each id once.
Orderings(S, cs) ==
  {[k \in 1..Cardinality(S) |-> [id |-> f[k], row |-> cs[f[k]]]] :
     f \in {g \in [1..Cardinality(S) -> S] : \A i, j \in 1..Cardinality(S) :
                                                 i # j => g[i] # g[j]}}

\* orderBy: {createdAt: 'desc'}: rows with the same createdAt come in an order
\* the database does not fix
OrderDesc(S, cs) ==
  {seq \in Orderings(S, cs) :
     \A i, j \in 1..Len(seq) : i < j => seq[i].row.createdAt >= seq[j].row.createdAt}

\* a listing without the where clause
findManyAll(cs) == OrderDesc(DOMAIN cs, cs)

\* a listing without the orderBy clause
findManyUnordered(cs) == Orderings({c \in DOMAIN cs : cs[c].approved}, cs)

\* the results the query can give
findManyApproved(cs) == OrderDesc({c \in DOMAIN cs : cs[c].approved}, cs)

\* const { threshold = 0.7 } = req.body
ThresholdOf(input) == IF input = NoThreshold THEN DefaultThreshold ELSE input

\* a comparison that leaves out a score equal to the threshold
StrictlyAbove(score, threshold) == RGt(score, threshold)

\* the comparison the wrong way round
MeetsReversed(score, threshold) == RGeq(threshold, score)

\* if (finalScore >= threshold)
MeetsThreshold(score, threshold) == RGeq(score, threshold)

\* the loops over i and j = i + 1 .. : the candidates in iteration order
RECURSIVE InnerLoop(_, _, _, _)
InnerLoop(cs, i, j, threshold) ==
  IF j > Len(cs) THEN <<>>
  ELSE LET score == finalScore(cs[i].row, cs[j].row)
           here == IF MeetsThreshold(score, threshold)
                   THEN <<[originalCaseId |-> cs[i].id, duplicateCaseId |-> cs[j].id,
                           similarityScore |-> score]>>
                   ELSE <<>>
       IN here \o InnerLoop(cs, i, j + 1, threshold)

RECURSIVE OuterLoop(_, _, _)
OuterLoop(cs, i, threshold) ==
  IF i > Len(cs) THEN <<>>
  ELSE InnerLoop(cs, i, i + 1, threshold) \o OuterLoop(cs, i + 1, threshold)

\* a scan that compares each case with the next one of the listing only
RECURSIVE AdjacentOnly(_, _)
AdjacentOnly(cs, threshold) ==
  IF Len(cs) < 2 THEN <<>>
  ELSE (IF MeetsThreshold(finalScore(cs[1].row, cs[2].row), threshold)
        THEN <<[originalCaseId |-> cs[1].id, duplicateCaseId |-> cs[2].id,
                similarityScore |-> finalScore(cs[1].row, cs[2].row)]>>
        ELSE <<>>) \o AdjacentOnly(Tail(cs), threshold)

Duplicates(cs, threshold) == OuterLoop(cs, 1, threshold)

\* a lookup with the two ids swapped
ReversedPair(reg, a, b) ==
  {row \in reg : row.originalCaseId = b /\ row.duplicateCaseId = a}

\* prisma.duplicateCase.findUnique({where: {originalCaseId_duplicateCaseId: ...}})
ExistingPair(reg, a, b) ==
  {row \in reg : row.originalCaseId = a /\ row.duplicateCaseId = b}

\* a table without the unique index
NoUniqueIndex(reg, a, b) == FALSE

\* the unique index DuplicateCase_originalCaseId_duplicateCaseId_key
UniqueViolation(reg, a, b) ==
  \E row \in reg : row.originalCaseId = a /\ row.duplicateCaseId = b

\* the foreign keys of DuplicateCase on MissingPerson
ForeignKeyViolation(cs, a, b) == a \notin DOMAIN cs \/ b \notin DOMAIN cs

\* a create that also stamps the resolver
NewDuplicateCaseStamped(id, dup, userId, now) ==
  [id |-> id, originalCaseId |-> dup.originalCaseId, duplicateCaseId |-> dup.duplicateCaseId,
   similarityScore |-> dup.similarityScore, detectedBy |-> userId, detectedAt |-> now,
   status |-> PENDENTE, resolvedBy |-> userId, resolvedAt |-> now,
   resolutionNotes |-> Null]

\* the row prisma.duplicateCase.create inserts; status takes the column default
NewDuplicateCase(id, dup, userId, now) ==
  [id |-> id, originalCaseId |-> dup.originalCaseId, duplicateCaseId |-> dup.duplicateCaseId,
   similarityScore |-> dup.similarityScore, detectedBy |-> userId, detectedAt |-> now,
   status |-> PENDENTE, resolvedBy |-> Null, resolvedAt |-> NoTime,
   resolutionNotes |-> Null]

DetectRunning(d) == det[d].pc \in {"findUnique", "create"}
ResolveRunning(r) == res[r].pc \in {"update", "delete", "audit"}

\* the pass answers: 200 with createdDuplicates, or 500 from the catch block
DetectAnswer(slot, pc, reg) ==
  [slot EXCEPT !.pc = pc, !.endRegistry = reg]

\* the request arrives and the handler lists the approved cases and scores them
\* history: the pass this moderator ran before, when it answered 200
PreviousPass(slot) ==
  IF slot.pc = "done"
  THEN <<[threshold |-> slot.threshold, cases |-> slot.cases,
          registry |-> slot.endRegistry, created |-> Len(slot.createdDuplicates)]>>
  ELSE <<>>

DetectFindMany(d, input, storeUp) ==
  /\ ~DetectRunning(d)
  /\ detectsStarted' = detectsStarted + 1
  /\ \E listing \in findManyApproved(cases) :
       LET threshold == ThresholdOf(input)
           dups == Duplicates(listing, threshold)
           fresh == [IdleDetect EXCEPT !.threshold = threshold, !.startRegistry = registry,
                                       !.prev = PreviousPass(det[d])]
           listed == [fresh EXCEPT !.cases = listing, !.duplicates = dups]
       IN IF ~storeUp
          THEN det' = [det EXCEPT ![d] =
                         DetectAnswer([fresh EXCEPT !.error = "UNAVAILABLE"], "err", registry)]
          ELSE IF dups = <<>>
          THEN det' = [det EXCEPT ![d] = DetectAnswer(listed, "done", registry)]
          ELSE det' = [det EXCEPT ![d] = [listed EXCEPT !.pc = "findUnique", !.idx = 1]]
  /\ UNCHANGED <<cases, deletedCases, registry, auditLogs, nextId, clock, res,
                 resolvesStarted, wasResolved>>

\* the slot after candidate idx is dealt with: the next candidate, or the answer
DetectAdvance(slot, reg) ==
  IF slot.idx = Len(slot.duplicates)
  THEN DetectAnswer(slot, "done", reg)
  ELSE [slot EXCEPT !.idx = slot.idx + 1, !.pc = "findUnique"]

\* an upsert: a pair that is registered gets the score of this pass
DetectUpsert(d) ==
  /\ det[d].pc = "findUnique"
  /\ LET dup == det[d].duplicates[det[d].idx]
         existing == ExistingPair(registry, dup.originalCaseId, dup.duplicateCaseId)
         reg == {IF row \in existing
                 THEN [row EXCEPT !.similarityScore = dup.similarityScore] ELSE row :
                   row \in registry}
         next == IF existing = {} THEN [det[d] EXCEPT !.pc = "create"]
                 ELSE DetectAdvance(det[d], reg)
     IN /\ det' = [det EXCEPT ![d] = next]
        /\ registry' = reg
  /\ UNCHANGED <<cases, deletedCases, auditLogs, nextId, clock, res,
                 detectsStarted, resolvesStarted, wasResolved>>

\* const existing = await prisma.duplicateCase.findUnique(...)
DetectFindUnique(d) ==
  /\ det[d].pc = "findUnique"
  /\ LET dup == det[d].duplicates[det[d].idx]
         existing == ExistingPair(registry, dup.originalCaseId, dup.duplicateCaseId)
         next == IF existing = {} THEN [det[d] EXCEPT !.pc = "create"]
                 ELSE DetectAdvance(det[d], registry)
     IN det' = [det EXCEPT ![d] = next]
  /\ UNCHANGED <<cases, deletedCases, registry, auditLogs, nextId, clock, res,
                 detectsStarted, resolvesStarted, wasResolved>>

\* const duplicate = await prisma.duplicateCase.create(...)
DetectCreate(d) ==
  /\ det[d].pc = "create"
  /\ LET dup == det[d].duplicates[det[d].idx]
         row == NewDuplicateCase(nextId, dup, d, clock + 1)
     IN IF UniqueViolation(registry, dup.originalCaseId, dup.duplicateCaseId)
        THEN /\ det' = [det EXCEPT ![d] =
                          DetectAnswer([det[d] EXCEPT !.error = "P2002"], "err", registry)]
             /\ UNCHANGED <<registry, nextId, clock>>
        ELSE IF ForeignKeyViolation(cases, dup.originalCaseId, dup.duplicateCaseId)
        THEN /\ det' = [det EXCEPT ![d] =
                          DetectAnswer([det[d] EXCEPT !.error = "P2003"], "err", registry)]
             /\ UNCHANGED <<registry, nextId, clock>>
        ELSE LET reg == registry \cup {row}
                 next == DetectAdvance(
                           [det[d] EXCEPT !.createdDuplicates = Append(@, row)], reg)
             IN /\ registry' = reg
                /\ nextId' = nextId + 1
                /\ clock' = clock + 1
                /\ det' = [det EXCEPT ![d] = next]
  /\ UNCHANGED <<cases, deletedCases, auditLogs, res, detectsStarted, resolvesStarted,
                 wasResolved>>

(***************************************************************************)
(* PATCH /:id/resolve                                                      *)
(***************************************************************************)
\* a validator that lets every status of the enum through
AnyStatus(status) == status \in DuplicateStatus

\* body('status').isIn(['CONFIRMADO', 'REJEITADO', 'RESOLVIDO'])
ValidStatus(status) == status \in {CONFIRMADO, REJEITADO, RESOLVIDO}

\* a lookup without the where clause
FindFirst(reg, id) == reg

\* prisma.duplicateCase.findUnique({where: {id}})
FindById(reg, id) == {row \in reg : row.id = id}

\* an update that also stamps the detection fields
ResolveDataStampsDetection(row, status, userId, now, notes) ==
  [row EXCEPT !.status = status, !.resolvedBy = userId, !.resolvedAt = now,
              !.resolutionNotes = IF notes = Null THEN @ ELSE notes,
              !.detectedBy = userId, !.detectedAt = now]

\* the data of prisma.duplicateCase.update; a field given as undefined is left alone
ResolveData(row, status, userId, now, notes) ==
  [row EXCEPT !.status = status, !.resolvedBy = userId, !.resolvedAt = now,
              !.resolutionNotes = IF notes = Null THEN @ ELSE notes]

\* a branch that forgets the flag
IgnoresFlag(status, deleteDuplicate) == status = CONFIRMADO

\* if (status === 'CONFIRMADO' && deleteDuplicate)
ShouldDelete(status, deleteDuplicate) == status = CONFIRMADO /\ deleteDuplicate

\* a cascade on the foreign key of duplicateCaseId alone
CascadeSecondOnly(reg, caseId) == {row \in reg : row.duplicateCaseId # caseId}

\* ON DELETE CASCADE of both foreign keys of DuplicateCase
CascadeDelete(reg, caseId) ==
  {row \in reg : row.originalCaseId # caseId /\ row.duplicateCaseId # caseId}

Restrict(f, S) == [x \in S |-> f[x]]

\* the catch block: 500
ResolveFail(slot, code, call) ==
  [slot EXCEPT !.pc = "err", !.error = code, !.failedCall = call]

\* the request arrives, is validated, and the handler reads the pair
ResolveFindUnique(r, id, status, notes, deleteDuplicate) ==
  /\ ~ResolveRunning(r)
  /\ resolvesStarted' = resolvesStarted + 1
  /\   LET fresh == [IdleResolve EXCEPT !.id = id, !.status = status,
                                        !.resolutionNotes = notes,
                                        !.deleteDuplicate = deleteDuplicate]
           found == FindById(registry, id)
       IN IF ~ValidStatus(status)
          THEN res' = [res EXCEPT ![r] = [fresh EXCEPT !.pc = "invalid"]]
          ELSE IF found = {}
          THEN res' = [res EXCEPT ![r] = [fresh EXCEPT !.pc = "notfound"]]
          ELSE LET row == CHOOSE x \in found : TRUE
               IN res' = [res EXCEPT ![r] =
                            [fresh EXCEPT !.pc = "update", !.duplicate = row,
                                          !.duplicateCaseName =
                                             cases[row.duplicateCaseId].fullName]]
  /\ UNCHANGED <<cases, deletedCases, registry, auditLogs, nextId, clock, det,
                 detectsStarted, wasResolved>>

\* const updated = await prisma.duplicateCase.update({where: {id}, data: ...})
ResolveUpdate(r) ==
  /\ res[r].pc = "update"
  /\ LET found == FindById(registry, res[r].id)
     IN IF found = {}
        THEN /\ res' = [res EXCEPT ![r] = ResolveFail(@, "P2025", "duplicateCase.update")]
             /\ UNCHANGED <<registry, clock, wasResolved>>
        ELSE LET row == CHOOSE x \in found : TRUE
                 updated == ResolveData(row, res[r].status, r, clock + 1,
                                        res[r].resolutionNotes)
             IN /\ registry' = (registry \ {row}) \cup {updated}
                /\ clock' = clock + 1
                /\ wasResolved' =
                     IF updated.status # PENDENTE
                     THEN wasResolved \cup {<<row.originalCaseId, row.duplicateCaseId>>}
                     ELSE wasResolved
                /\ res' = [res EXCEPT ![r] =
                             [@ EXCEPT !.updated = updated,
                                       !.pc = IF ShouldDelete(res[r].status,
                                                              res[r].deleteDuplicate)
                                              THEN "delete" ELSE "done"]]
  /\ UNCHANGED <<cases, deletedCases, auditLogs, nextId, det, detectsStarted,
                 resolvesStarted>>

\* a deleteMany in place of the delete: a case that is gone is not an error
ResolveDeleteMany(r, storeUp) ==
  /\ res[r].pc = "delete"
  /\ LET caseId == res[r].duplicate.duplicateCaseId
     IN IF ~storeUp
        THEN /\ res' = [res EXCEPT ![r] =
                          ResolveFail(@, "UNAVAILABLE", "missingPerson.delete")]
             /\ UNCHANGED <<cases, registry>>
        ELSE /\ cases' = Restrict(cases, DOMAIN cases \ {caseId})
             /\ registry' = CascadeDelete(registry, caseId)
             /\ res' = [res EXCEPT ![r] = [@ EXCEPT !.pc = "audit"]]
  /\ UNCHANGED <<deletedCases, auditLogs, nextId, clock, det, detectsStarted,
                 resolvesStarted, wasResolved>>

\* the update and the delete in one transaction: a failed delete undoes the update
ResolveDeleteRollback(r, storeUp) ==
  /\ res[r].pc = "delete"
  /\ LET caseId == res[r].duplicate.duplicateCaseId
     IN IF ~storeUp \/ caseId \notin DOMAIN cases
        THEN /\ res' = [res EXCEPT ![r] =
                          ResolveFail(@, "UNAVAILABLE", "missingPerson.delete")]
             /\ registry' = {IF row.id = res[r].id THEN res[r].duplicate ELSE row :
                               row \in registry}
             /\ UNCHANGED cases
        ELSE /\ cases' = Restrict(cases, DOMAIN cases \ {caseId})
             /\ registry' = CascadeDelete(registry, caseId)
             /\ res' = [res EXCEPT ![r] = [@ EXCEPT !.pc = "audit"]]
  /\ UNCHANGED <<deletedCases, auditLogs, nextId, clock, det, detectsStarted,
                 resolvesStarted, wasResolved>>

\* await prisma.missingPerson.delete({where: {id: duplicate.duplicateCaseId}})
ResolveDelete(r, storeUp) ==
  /\ res[r].pc = "delete"
  /\   LET caseId == res[r].duplicate.duplicateCaseId
       IN IF ~storeUp
          THEN /\ res' = [res EXCEPT ![r] =
                            ResolveFail(@, "UNAVAILABLE", "missingPerson.delete")]
               /\ UNCHANGED <<cases, registry>>
          ELSE IF caseId \notin DOMAIN cases
          THEN /\ res' = [res EXCEPT ![r] = ResolveFail(@, "P2025", "missingPerson.delete")]
               /\ UNCHANGED <<cases, registry>>
          ELSE /\ cases' = Restrict(cases, DOMAIN cases \ {caseId})
               /\ registry' = CascadeDelete(registry, caseId)
               /\ res' = [res EXCEPT ![r] = [@ EXCEPT !.pc = "audit"]]
  /\ UNCHANGED <<deletedCases, auditLogs, nextId, clock, det, detectsStarted,
                 resolvesStarted, wasResolved>>

\* await prisma.auditLog.create({data: {action: 'DELETE_DUPLICATE_CASE', ...}})
ResolveAudit(r, storeUp) ==
  /\ res[r].pc = "audit"
  /\   IF ~storeUp
       THEN /\ res' = [res EXCEPT ![r] = ResolveFail(@, "UNAVAILABLE", "auditLog.create")]
            /\ UNCHANGED auditLogs
       ELSE /\ auditLogs' = Append(auditLogs,
                 [userId |-> r, action |-> "DELETE_DUPLICATE_CASE", entityType |-> "CASE",
                  entityId |-> res[r].duplicate.duplicateCaseId,
                  details |-> res[r].duplicateCaseName])
            /\ res' = [res EXCEPT ![r] = [@ EXCEPT !.pc = "done"]]
  /\ UNCHANGED <<cases, deletedCases, registry, nextId, clock, det, detectsStarted,
                 resolvesStarted, wasResolved>>

(***************************************************************************)
(* Case management: DELETE /:id (soft delete) and POST /:id/restore        *)
(***************************************************************************)
\* the row is kept and marked; DeletedCase.caseId is unique, so a case is
\* soft-deleted at most once
SoftDeleteCase(c) ==
  /\ c \in DOMAIN cases
  /\ ~cases[c].isDeleted
  /\ c \notin DOMAIN deletedCases
  /\ deletedCases' = [x \in DOMAIN deletedCases \cup {c} |->
                        IF x = c THEN [caseData |-> cases[c], restoredAt |-> NoTime]
                        ELSE deletedCases[x]]
  /\ cases' = [cases EXCEPT ![c].isDeleted = TRUE]
  /\ UNCHANGED <<registry, auditLogs, nextId, clock, det, res, detectsStarted,
                 resolvesStarted, wasResolved>>

\* the row is created again under its old id, with a new createdAt
RestoreCase(c) ==
  /\ c \in DOMAIN deletedCases
  /\ deletedCases[c].restoredAt = NoTime
  /\ c \notin DOMAIN cases
  /\ LET caseData == deletedCases[c].caseData
     IN cases' = [x \in DOMAIN cases \cup {c} |->
                    IF x = c
                    THEN [caseData EXCEPT !.isDeleted = FALSE, !.createdAt = clock + 1]
                    ELSE cases[x]]
  /\ deletedCases' = [deletedCases EXCEPT ![c].restoredAt = clock + 1]
  /\ clock' = clock + 1
  /\ UNCHANGED <<registry, auditLogs, nextId, det, res, detectsStarted, resolvesStarted,
                 wasResolved>>

\* POST /: the row is created with the fields of the body, not approved; now is
\* the time stamp of the row, which has the resolution of a millisecond and can
\* be the last one handed out
CreateCase(c, body, now) ==
  /\ c \notin DOMAIN cases
  /\ c \notin DOMAIN deletedCases
  /\ now \in {clock, clock + 1}
  /\ cases' = [x \in DOMAIN cases \cup {c} |->
                 IF x = c
                 THEN [fullName |-> body.fullName, age |-> body.age,
                       missingDate |-> body.missingDate, province |-> body.province,
                       approved |-> FALSE, isDeleted |-> FALSE, createdAt |-> now]
                 ELSE cases[x]]
  /\ clock' = now
  /\ UNCHANGED <<deletedCases, registry, auditLogs, nextId, det, res, detectsStarted,
                 resolvesStarted, wasResolved>>

\* PUT /:id: the fields of the body are written to the row, which must not be
\* soft-deleted, and an EDIT_CASE entry is written; changes is <<field, value>>
EditCase(c, changes, storeUp) ==
  /\ c \in DOMAIN cases
  /\ ~cases[c].isDeleted
  /\ LET updated == [f \in DOMAIN cases[c] |->
                      IF f = changes[1] THEN changes[2] ELSE cases[c][f]]
     IN /\ cases' = [cases EXCEPT ![c] = updated]
        /\ auditLogs' =
             IF storeUp
             THEN Append(auditLogs,
                    [userId |-> "admin", action |-> "EDIT_CASE", entityType |-> "CASE",
                     entityId |-> c, details |-> updated.fullName])
             ELSE auditLogs
  /\ UNCHANGED <<deletedCases, registry, nextId, clock, det, res, detectsStarted,
                 resolvesStarted, wasResolved>>

\* PATCH /:id/approve: approved is written; the audit entry of this handler names
\* the column payload, which the table no longer has, and the failure is caught
ApproveCase(c, approved) ==
  /\ c \in DOMAIN cases
  /\ cases' = [cases EXCEPT ![c].approved = approved]
  /\ UNCHANGED <<deletedCases, registry, auditLogs, nextId, clock, det, res,
                 detectsStarted, resolvesStarted, wasResolved>>

(***************************************************************************)
(* Specifications.  Spec interleaves the requests of two moderators at     *)
(* their awaits.  SpecSeq serves one request at a time.                    *)
(* SpecRestore adds the soft delete and the restore of a case.             *)
(***************************************************************************)
\* the ids a resolve request may name: those of the rows, and one of no row
IdInputs == {row.id : row \in registry} \cup {0}

\* the two moderators are interchangeable: the first request of a kind is d1's or r1's
FirstDetector(d) == d = "d1" \/ det["d1"].pc # "idle"
FirstResolver(r) == r = "r1" \/ res["r1"].pc # "idle"

Next ==
  \/ /\ detectsStarted < MaxDetects
     /\ detectsStarted + resolvesStarted < MaxRequests
     /\ \E d \in Detectors, input \in {NoThreshold, <<0, 1>>}, storeUp \in BOOLEAN :
          FirstDetector(d) /\ DetectFindMany(d, input, storeUp)
  \/ \E d \in Detectors : DetectFindUnique(d)
  \/ \E d \in Detectors : DetectCreate(d)
  \/ /\ resolvesStarted < MaxResolves
     /\ detectsStarted + resolvesStarted < MaxRequests
     /\ \E r \in Resolvers, id \in IdInputs, status \in {CONFIRMADO, REJEITADO},
           deleteDuplicate \in BOOLEAN :
          FirstResolver(r) /\ ResolveFindUnique(r, id, status, Null, deleteDuplicate)
  \/ \E r \in Resolvers : ResolveUpdate(r)
  \/ \E r \in Resolvers, storeUp \in BOOLEAN : ResolveDelete(r, storeUp)
  \/ \E r \in Resolvers, storeUp \in BOOLEAN : ResolveAudit(r, storeUp)

Spec == Init /\ [][Next]_vars

Quiet ==
  /\ \A d \in Detectors : ~DetectRunning(d)
  /\ \A r \in Resolvers : ~ResolveRunning(r)

NextSeq ==
  \/ /\ Quiet
     /\ detectsStarted < SeqDetects
     /\ \E input \in ThresholdInputs, storeUp \in BOOLEAN :
          DetectFindMany("d1", input, storeUp)
  \/ DetectFindUnique("d1")
  \/ DetectCreate("d1")
  \/ /\ Quiet
     /\ resolvesStarted < SeqResolves
     /\ \E id \in IdInputs, status \in StatusInputs, notes \in NotesInputs,
           deleteDuplicate \in BOOLEAN :
          ResolveFindUnique("r1", id, status, notes, deleteDuplicate)
  \/ ResolveUpdate("r1")
  \/ \E storeUp \in BOOLEAN : ResolveDelete("r1", storeUp)
  \/ \E storeUp \in BOOLEAN : ResolveAudit("r1", storeUp)

SpecSeq == Init /\ [][NextSeq]_vars

\* One request at a time, with the soft delete and the restore of the cases A and B
\* between the requests; every pass runs with the default threshold.
NextRestore ==
  \/ /\ Quiet
     /\ detectsStarted < RestoreDetects
     /\ DetectFindMany("d1", NoThreshold, TRUE)
  \/ DetectFindUnique("d1")
  \/ DetectCreate("d1")
  \/ /\ Quiet
     /\ resolvesStarted < RestoreResolves
     /\ \E id \in IdInputs, status \in {PENDENTE, CONFIRMADO, REJEITADO},
           deleteDuplicate \in BOOLEAN :
          ResolveFindUnique("r1", id, status, Null, deleteDuplicate)
  \/ ResolveUpdate("r1")
  \/ ResolveDelete("r1", TRUE)
  \/ ResolveAudit("r1", TRUE)
  \/ Quiet /\ \E c \in {"A", "B"} : SoftDeleteCase(c)
  \/ Quiet /\ \E c \in {"A", "B"} : RestoreCase(c)

SpecRestore == Init /\ [][NextRestore]_vars

\* the bodies of PUT /:id: one field each
EditInputs ==
  {<<"age", 0>>, <<"age", 30>>, <<"fullName", <<>>>>, <<"province", <<>>>>,
   <<"province", <<"M">>>>, <<"missingDate", 10>>, <<"missingDate", 60>>}

\* the thresholds of SpecEdit: -1, 0 and 1.1
EditThresholds == {<<0 - 1, 1>>, <<0, 1>>, <<11, 10>>}

\* edits and approvals made so far: each EDIT_CASE entry is one edit, and a case
\* that is not approved has had one approval request
ChangesMade ==
  Cardinality({k \in 1..Len(auditLogs) : auditLogs[k].action = "EDIT_CASE"})
  + Cardinality({c \in DOMAIN cases : ~cases[c].approved})

\* One request at a time; between the requests an administrator edits a case and
\* a moderator withdraws the approval of a case.
NextEdit ==
  \/ /\ Quiet
     /\ detectsStarted < EditDetects
     /\ \E input \in EditThresholds : DetectFindMany("d1", input, TRUE)
  \/ DetectFindUnique("d1")
  \/ DetectCreate("d1")
  \/ /\ Quiet
     /\ resolvesStarted < EditResolves
     /\ \E id \in IdInputs, status \in {CONFIRMADO, REJEITADO} :
          ResolveFindUnique("r1", id, status, "duplicado", FALSE)
  \/ ResolveUpdate("r1")
  \/ /\ Quiet
     /\ ChangesMade < EditChanges
     /\ \E c \in CaseIds, changes \in EditInputs : EditCase(c, changes, TRUE)
  \/ /\ Quiet
     /\ ChangesMade < EditChanges
     /\ \E c \in CaseIds : cases[c].approved /\ ApproveCase(c, FALSE)

SpecEdit == Init /\ [][NextEdit]_vars

\* the ids and the bodies of POST /
NewCaseIds == {"D"}
CreateInputs ==
  {[fullName |-> <<"a", "n", "a">>, age |-> a, missingDate |-> 10, province |-> <<"L">>] :
     a \in {NoAge, 30}}

\* One request at a time; a case is reported in the millisecond of the last time
\* stamp or later, and approved; the passes run with threshold 0 or the default.
NextTies ==
  \/ /\ Quiet
     /\ detectsStarted < TieDetects
     /\ \E input \in {NoThreshold, <<0, 1>>} : DetectFindMany("d1", input, TRUE)
  \/ DetectFindUnique("d1")
  \/ DetectCreate("d1")
  \/ /\ Quiet
     /\ \E c \in NewCaseIds, body \in CreateInputs, now \in {clock, clock + 1} :
          CreateCase(c, body, now)
  \/ /\ Quiet
     /\ \E c \in NewCaseIds : c \in DOMAIN cases /\ ~cases[c].approved /\ ApproveCase(c, TRUE)

SpecTies == Init /\ [][NextTies]_vars

\* the names of SpecNames: the strings over a, b, A of length up to MaxLen
NameAlphabet == {"a", "b", "A"}
NameStrings == UNION {[1..n -> NameAlphabet] : n \in 0..MaxLen}

EditsMade == Cardinality({k \in 1..Len(auditLogs) : auditLogs[k].action = "EDIT_CASE"})

\* An administrator gives the cases A and B new names; a moderator runs a pass
\* with threshold 0, which scores every two cases.
NextNames ==
  \/ /\ Quiet
     /\ detectsStarted < NameDetects
     /\ DetectFindMany("d1", <<0, 1>>, TRUE)
  \/ DetectFindUnique("d1")
  \/ DetectCreate("d1")
  \/ /\ Quiet
     /\ EditsMade < NameEdits
     /\ \E c \in {"A", "B"}, name \in NameStrings : EditCase(c, <<"fullName", name>>, TRUE)

SpecNames == Init /\ [][NextNames]_vars

(***************************************************************************)
(* Properties.                                                             *)
(***************************************************************************)
SamePair(x, y) ==
  x.originalCaseId = y.originalCaseId /\ x.duplicateCaseId = y.duplicateCaseId

\* C1: in every reachable state, also with two detection passes interleaved between
\* their existence checks and their inserts, no two rows of the registry have the
\* same ordered (originalCaseId, duplicateCaseId).
C1_UniqueOrderedPair ==
  \A x \in registry, y \in registry : SamePair(x, y) => x = y

\* C1 witness: a pass checked a pair, found none, and had its insert rejected by the
\* unique index because the other pass had inserted the pair in between.
C1_Witness ==
  \E d \in Detectors : det[d].pc = "err" /\ det[d].error = "P2002"

\* C2 as stated: a resolve that reaches a pair whose status is not PENDENTE does not
\* succeed and leaves the row as it was.
C2_NonPendingResolveRejected ==
  [][\A r \in Resolvers :
       (res[r].pc = "update" /\ res'[r] # res[r]) =>
         \A row \in FindById(registry, res[r].id) :
           row.status # PENDENTE =>
             /\ res'[r].pc \notin {"done", "delete"}
             /\ FindById(registry', res[r].id) = {row}]_vars

\* C3 as stated: an ordered pair that has had a status other than PENDENTE is never
\* again the pair of a PENDENTE row.
C3_PairNeverPendingAgain ==
  \A row \in registry :
    row.status = PENDENTE => <<row.originalCaseId, row.duplicateCaseId>> \notin wasResolved

\* C3 amended: a row whose status is not PENDENTE never has the status PENDENTE
\* again for as long as it exists, whatever detect, resolve, soft delete and restore
\* do; ids are handed out once, so a row registered later is another row.
C3_RowNeverPendingAgain ==
  [][/\ \A row \in registry : \A row2 \in registry' :
          (row2.id = row.id /\ row.status # PENDENTE) => row2.status # PENDENTE
     /\ \A row2 \in registry' :
          (\A row \in registry : row.id # row2.id) => row2.id >= nextId /\ nextId' > row2.id
    ]_vars

\* C3 witness: a detection pass has run over a registry that held a resolved row,
\* and the row is still there, resolved.
C3_Witness ==
  \E row \in registry :
    /\ row.status # PENDENTE
    /\ det["d1"].pc = "done"
    /\ \E old \in det["d1"].startRegistry : old.id = row.id /\ old.status # PENDENTE

\* the second run of a moderator: the run before answered 200 with the same
\* threshold and the same listing, and the registry is as that run left it
SecondRun(slot) ==
  /\ slot.pc \in {"done", "err"}
  /\ slot.prev # <<>>
  /\ slot.prev[1].threshold = slot.threshold
  /\ slot.prev[1].cases = slot.cases
  /\ slot.prev[1].registry = slot.startRegistry

\* C4: a detection pass run right after another with the same threshold, the same
\* listing and the registry untouched in between answers 200, creates no row and
\* leaves the registry as the first run left it.
C4_SecondRunCreatesNothing ==
  \A d \in Detectors :
    SecondRun(det[d]) =>
      /\ det[d].pc = "done"
      /\ det[d].createdDuplicates = <<>>
      /\ det[d].endRegistry = det[d].startRegistry

\* C4 witness: a second run that had candidates, all of them registered by the
\* first run, has finished.
C4_Witness ==
  \E d \in Detectors :
    /\ SecondRun(det[d])
    /\ det[d].pc = "done"
    /\ det[d].prev[1].created > 0
    /\ Len(det[d].duplicates) > 0

\* C5: a MissingPerson row disappears only in the delete step of a resolve whose
\* status is CONFIRMADO and whose deleteDuplicate is true, and the row is the
\* duplicateCaseId of the pair the request read, never its originalCaseId.
C5_OnlyConfirmedDeleteRemovesCase ==
  [][\A c \in DOMAIN cases :
       c \notin DOMAIN cases' =>
         \E r \in Resolvers :
           /\ res[r].pc = "delete"
           /\ res'[r].pc = "audit"
           /\ res[r].status = CONFIRMADO
           /\ res[r].deleteDuplicate
           /\ res[r].duplicate.id = res[r].id
           /\ res[r].duplicate.duplicateCaseId = c
           /\ res[r].duplicate.originalCaseId # c
           /\ DOMAIN cases' = DOMAIN cases \ {c}]_vars

\* C5 witness: a resolve to CONFIRMADO with the flag has deleted the second record.
C5_Witness ==
  \E r \in Resolvers :
    /\ res[r].pc \in {"audit", "done"}
    /\ res[r].status = CONFIRMADO /\ res[r].deleteDuplicate
    /\ res[r].duplicate.duplicateCaseId \notin DOMAIN cases
    /\ res[r].duplicate.originalCaseId \in DOMAIN cases

\* C6 as stated: no step removes a row of the registry.
C6_NoPairRemoved ==
  [][\A row \in registry : \E row2 \in registry' : row2.id = row.id]_vars

\* C6 amended: rows leave the registry only in the delete step of a resolve to
\* CONFIRMADO with the flag, and that step removes exactly the rows that name the
\* deleted case as originalCaseId or as duplicateCaseId, the resolved row among them.
C6_PairsRemovedOnlyByCascade ==
  [][(\E row \in registry : \A row2 \in registry' : row2.id # row.id) =>
       \E r \in Resolvers :
         LET caseId == res[r].duplicate.duplicateCaseId IN
         /\ res[r].pc = "delete"
         /\ res'[r].pc = "audit"
         /\ res[r].status = CONFIRMADO /\ res[r].deleteDuplicate
         /\ caseId \in DOMAIN cases /\ caseId \notin DOMAIN cases'
         /\ registry' = {row \in registry : row.originalCaseId # caseId
                                            /\ row.duplicateCaseId # caseId}]_vars

\* C6 witness: a resolve with deletion has answered 200, and neither the row it
\* resolved nor a row that had the deleted case as originalCaseId is in the registry.
C6_Witness ==
  \E r \in Resolvers :
    /\ res[r].pc = "done"
    /\ res[r].status = CONFIRMADO /\ res[r].deleteDuplicate
    /\ FindById(registry, res[r].id) = {}
    /\ res[r].duplicate.duplicateCaseId \notin DOMAIN cases
    /\ \E d \in Detectors : \E k \in 1..Len(det[d].createdDuplicates) :
         LET row == det[d].createdDuplicates[k] IN
         /\ row.originalCaseId = res[r].duplicate.duplicateCaseId
         /\ FindById(registry, row.id) = {}

C8_FailedCandidateIsSkipped ==
  [][\A d \in Detectors :
       (det[d].pc = "create" /\ det'[d] # det[d] /\ registry' = registry) =>
         /\ det'[d].pc \in {"findUnique", "done"}
         /\ det'[d].createdDuplicates = det[d].createdDuplicates]_vars

\* C9 as stated: of two resolves that both read the same pair as PENDENTE, at most
\* one answers 200.
C9_AtMostOneResolveSucceeds ==
  \A r1 \in Resolvers, r2 \in Resolvers :
    (/\ r1 # r2
     /\ res[r1].id = res[r2].id
     /\ res[r1].duplicate.id = res[r1].id
     /\ res[r2].duplicate.id = res[r2].id
     /\ res[r1].id # 0
     /\ res[r1].duplicate.status = PENDENTE
     /\ res[r2].duplicate.status = PENDENTE)
    => ~(res[r1].pc = "done" /\ res[r2].pc = "done")

RowsOf(seq) == {seq[k] : k \in 1..Len(seq)}
PairOf(row) == <<row.originalCaseId, row.duplicateCaseId>>

\* the ordered pairs a pass over the listing has to create: compared (i before j),
\* score >= threshold, not registered
ExpectedPairs(listing, threshold, reg) ==
  {<<listing[i].id, listing[j].id>> :
     <<i, j>> \in {q \in (1..Len(listing)) \X (1..Len(listing)) :
                    /\ q[1] < q[2]
                    /\ RGeq(finalScore(listing[q[1]].row, listing[q[2]].row), threshold)
                    /\ \A row \in reg : PairOf(row) #
                                         <<listing[q[1]].id, listing[q[2]].id>>}}

\* C10: a pass that answers 200 has created a row for a compared pair exactly when
\* the score of the pair is >= the threshold and the ordered pair was not
\* registered when it was checked; the list it returns holds exactly these rows,
\* none of which was in the registry before, and the registry is the old one plus
\* these rows.
C10_CreatesExactlyAbsentCandidates ==
  \A d \in Detectors :
    det[d].pc = "done" =>
      LET created == RowsOf(det[d].createdDuplicates) IN
      /\ {PairOf(row) : row \in created} =
           ExpectedPairs(det[d].cases, det[d].threshold, det[d].startRegistry)
      /\ Cardinality(created) = Len(det[d].createdDuplicates)
      /\ Cardinality({PairOf(row) : row \in created}) = Cardinality(created)
      /\ \A row \in created : \A old \in det[d].startRegistry : old.id # row.id
      /\ \A row \in created :
           \E i \in 1..Len(det[d].cases), j \in 1..Len(det[d].cases) :
             /\ i < j
             /\ PairOf(row) = <<det[d].cases[i].id, det[d].cases[j].id>>
             /\ row.similarityScore =
                  finalScore(det[d].cases[i].row, det[d].cases[j].row)
      /\ det[d].endRegistry = det[d].startRegistry \cup created

\* C10 witness: a pass has answered 200 after creating rows for some candidates and
\* skipping a candidate that was registered.
C10_Witness ==
  \E d \in Detectors :
    /\ det[d].pc = "done"
    /\ Len(det[d].createdDuplicates) > 0
    /\ Len(det[d].duplicates) > Len(det[d].createdDuplicates)
    /\ det[d].startRegistry # {}

\* C11: no step changes the similarityScore of a row of the registry: not the
\* pass that finds the ordered pair registered, also after an edit of the cases
\* that changes what they score, and not a resolve.
C11_ScoreImmutable ==
  [][\A row \in registry : \A row2 \in registry' :
       row2.id = row.id => row2.similarityScore = row.similarityScore]_vars

\* C11 witness: a pass has finished that found a pair registered and resolved
\* whose cases now score differently from the score the row holds.
C11_Witness ==
  \E d \in Detectors :
    /\ det[d].pc = "done"
    /\ \E k \in 1..Len(det[d].duplicates) : \E row \in registry :
         /\ PairOf(row) = <<det[d].duplicates[k].originalCaseId,
                            det[d].duplicates[k].duplicateCaseId>>
         /\ \E old \in det[d].startRegistry : old.id = row.id
         /\ row.status # PENDENTE
         /\ row.similarityScore # det[d].duplicates[k].similarityScore

\* C12: a resolve request with a valid status whose id is the id of no row answers
\* 404 in the step that serves it, with the registry, the cases and the audit log
\* unchanged, and the request takes no further step.
C12_UnknownIdNotFound ==
  [][\A r \in Resolvers :
       /\ (/\ resolvesStarted' = resolvesStarted + 1
           /\ res'[r] # res[r]
           /\ res'[r].status \in {CONFIRMADO, REJEITADO, RESOLVIDO}
           /\ \A row \in registry : row.id # res'[r].id)
          => /\ res'[r].pc = "notfound"
             /\ registry' = registry
             /\ cases' = cases
             /\ auditLogs' = auditLogs
       /\ (res[r].pc = "notfound" /\ res'[r] # res[r])
          => resolvesStarted' = resolvesStarted + 1]_vars

\* C12 witness: a request has been answered 404 while the registry holds rows.
C12_Witness ==
  \E r \in Resolvers :
    /\ res[r].pc = "notfound"
    /\ registry # {}
    /\ \A row \in registry : row.id # res[r].id

\* a step of a resolve request that read its pair as PENDENTE and does not fail
ResolveStepOfPending(r) ==
  /\ res[r].pc \in {"update", "delete", "audit"}
  /\ res[r].duplicate.status = PENDENTE
  /\ res'[r] # res[r]
  /\ res'[r].pc # "err"

\* the update step: the row read gets the four fields of the request, every other
\* field of it and every other row stay
UpdateSetsFour(r) ==
  /\ clock' > clock
  /\ registry' = (registry \ {res[r].duplicate}) \cup
                   {[res[r].duplicate EXCEPT !.status = res[r].status,
                                             !.resolvedBy = r,
                                             !.resolvedAt = clock',
                                             !.resolutionNotes = res[r].resolutionNotes]}

\* C13 as stated: a successful resolve of a PENDENTE pair changes the registry in
\* its update only, where it sets status, resolvedBy, resolvedAt and
\* resolutionNotes of the pair; every other field and every other pair is
\* unchanged by every step of the request.
C13_ResolveFrame ==
  [][\A r \in Resolvers :
       ResolveStepOfPending(r) =>
         IF res[r].pc = "update" THEN UpdateSetsFour(r) ELSE registry' = registry]_vars

\* C13 amended: the update sets the four fields and nothing else; the delete of a
\* resolve with deletion removes the rows that reference the deleted case and
\* leaves the other rows as they are; the audit step leaves the registry alone.
C13_UpdateFrame ==
  [][\A r \in Resolvers :
       ResolveStepOfPending(r) =>
         CASE res[r].pc = "update" -> UpdateSetsFour(r)
           [] res[r].pc = "delete" ->
                registry' = {row \in registry :
                               /\ row.originalCaseId # res[r].duplicate.duplicateCaseId
                               /\ row.duplicateCaseId # res[r].duplicate.duplicateCaseId}
           [] OTHER -> registry' = registry]_vars

\* C13 witness: a resolve with notes and with deletion of a pair read as PENDENTE
\* has answered 200; its row is gone and another row is still registered.
C13_Witness ==
  \E r \in Resolvers :
    /\ res[r].pc = "done"
    /\ res[r].duplicate.status = PENDENTE
    /\ res[r].resolutionNotes # Null
    /\ res[r].updated.resolutionNotes = res[r].resolutionNotes
    /\ res[r].deleteDuplicate
    /\ FindById(registry, res[r].id) = {}
    /\ registry # {}

\* the DELETE_DUPLICATE_CASE entries of the audit log for a case
DeletionEntries(c) ==
  {k \in 1..Len(auditLogs) :
     /\ auditLogs[k].action = "DELETE_DUPLICATE_CASE"
     /\ auditLogs[k].entityId = c
     /\ auditLogs[k].userId \in Resolvers}

\* C14 as stated: when no resolve is between its delete and its audit entry for a
\* case, the audit log holds one DELETE_DUPLICATE_CASE entry for the case for each
\* time a resolve deleted it (once when the row is gone, never otherwise: no
\* request of this specification creates a case).
C14_DeletionsAreAudited ==
  \A c \in CaseIds :
    (\A r \in Resolvers :
       ~(res[r].pc = "audit" /\ res[r].duplicate.duplicateCaseId = c))
    => Cardinality(DeletionEntries(c)) = IF c \in DOMAIN cases THEN 0 ELSE 1

\* C15 as stated: the step that writes the audit entry of a deletion ends the
\* request with the answer 200, also when the write fails.
C15_AuditFailureNotPropagated ==
  [][\A r \in Resolvers :
       (res[r].pc = "audit" /\ res'[r] # res[r]) => res'[r].pc = "done"]_vars

OutOfRange(threshold) == RGt(threshold, ROne) \/ RGt(RZero, threshold)

\* C16 as stated: a detect request whose threshold is below 0 or above 1 is
\* answered by a validation error before any work: it has listed no case, scored
\* no pair and created no row.
C16_ThresholdValidated ==
  \A d \in Detectors :
    (det[d].pc # "idle" /\ OutOfRange(det[d].threshold)) =>
      /\ det[d].pc \notin {"findUnique", "create", "done"}
      /\ det[d].cases = <<>>
      /\ det[d].duplicates = <<>>
      /\ det[d].createdDuplicates = <<>>

\* C17: a pass with a threshold above 1 has no candidate, creates no row and
\* answers 200 with the registry as it found it, whatever the approved cases and
\* the registry are.
C17_ThresholdAboveOneCreatesNothing ==
  \A d \in Detectors :
    (det[d].pc # "idle" /\ RGt(det[d].threshold, ROne)) =>
      /\ det[d].pc = "done"
      /\ det[d].duplicates = <<>>
      /\ det[d].createdDuplicates = <<>>
      /\ det[d].endRegistry = det[d].startRegistry

\* C17 witness: a pass with threshold 1.1 has finished over a listing that holds
\* two cases that score 1, with rows in the registry.
C17_Witness ==
  \E d \in Detectors :
    /\ det[d].pc = "done"
    /\ det[d].threshold = <<11, 10>>
    /\ det[d].startRegistry # {}
    /\ \E i \in 1..Len(det[d].cases), j \in 1..Len(det[d].cases) :
         i < j /\ finalScore(det[d].cases[i].row, det[d].cases[j].row) = ROne

\* C18: a pass with threshold 0 that starts from an empty registry over n >= 2
\* approved cases answers 200 and has created n(n-1)/2 rows, exactly one for
\* every two distinct cases of the listing.
C18_ThresholdZeroCreatesAllPairs ==
  \A d \in Detectors :
    (/\ det[d].pc \in {"done", "err"}
     /\ det[d].threshold = RZero
     /\ det[d].startRegistry = {}
     /\ Len(det[d].cases) >= 2)
    => LET n == Len(det[d].cases)
           created == RowsOf(det[d].createdDuplicates)
       IN /\ det[d].pc = "done"
          /\ 2 * Len(det[d].createdDuplicates) = n * (n - 1)
          /\ \A i \in 1..n, j \in 1..n :
               i < j =>
                 Cardinality({row \in created :
                    {row.originalCaseId, row.duplicateCaseId} =
                      {det[d].cases[i].id, det[d].cases[j].id}}) = 1
          /\ det[d].endRegistry = created

\* C18 witness: such a pass over three cases has created three rows.
C18_Witness ==
  \E d \in Detectors :
    /\ det[d].pc = "done"
    /\ det[d].threshold = RZero
    /\ det[d].startRegistry = {}
    /\ Len(det[d].cases) = 3
    /\ Len(det[d].createdDuplicates) = 3

FactorNames == {"name", "date", "province", "age"}

FactorWeight(f) ==
  CASE f = "name" -> <<2, 5>>
    [] f = "date" -> <<1, 5>>
    [] f = "province" -> <<1, 5>>
    [] f = "age" -> <<1, 5>>

FactorSimilarity(f, case1, case2) ==
  CASE f = "name" -> nameSimilarity(case1, case2)
    [] f = "date" -> dateSimilarity(case1, case2)
    [] f = "province" -> locationSimilarity(case1, case2)
    [] f = "age" -> ageSimilarity(case1, case2)

\* the factors the code lets take part
AppliedFactors(case1, case2) ==
  {f \in FactorNames :
     CASE f = "name" -> NameApplies(case1, case2)
       [] f = "date" -> DateApplies(case1, case2)
       [] f = "province" -> LocationApplies(case1, case2)
       [] f = "age" -> AgeApplies(case1, case2)}

RECURSIVE SumOfWeights(_)
SumOfWeights(S) ==
  IF S = {} THEN RZero
  ELSE LET f == CHOOSE x \in S : TRUE
       IN RAdd(FactorWeight(f), SumOfWeights(S \ {f}))

RECURSIVE WeightedSum(_, _, _)
WeightedSum(S, case1, case2) ==
  IF S = {} THEN RZero
  ELSE LET f == CHOOSE x \in S : TRUE
       IN RAdd(RMul(FactorWeight(f), FactorSimilarity(f, case1, case2)),
               WeightedSum(S \ {f}, case1, case2))

\* the score the formula gives when the factors of S take part
ScoreOver(S, case1, case2) ==
  IF S = {} THEN RZero
  ELSE RDiv(WeightedSum(S, case1, case2), SumOfWeights(S))

\* the row of the listing of a pass for a case id
ListedRow(slot, id) ==
  (CHOOSE e \in RowsOf(slot.cases) : e.id = id).row

\* C19: the score of every candidate of a pass is the sum of weight x similarity
\* over the factors that take part, divided by the sum of their weights (name
\* 0.4, date 0.2, province 0.2, age 0.2), 0 when none takes part, and the
\* similarity of the factor when exactly one takes part.
C19_ScoreIsNormalisedWeightedMean ==
  \A d \in Detectors : \A k \in 1..Len(det[d].duplicates) :
    LET dup == det[d].duplicates[k]
        case1 == ListedRow(det[d], dup.originalCaseId)
        case2 == ListedRow(det[d], dup.duplicateCaseId)
        applied == AppliedFactors(case1, case2)
    IN /\ dup.similarityScore = ScoreOver(applied, case1, case2)
       /\ applied = {} => dup.similarityScore = RZero
       /\ \A f \in applied :
            applied = {f} => dup.similarityScore = FactorSimilarity(f, case1, case2)

\* C19 witness: a pass holds a candidate scored on one factor alone and a
\* candidate scored on all four.
C19_Witness ==
  \E d \in Detectors :
    \E k \in 1..Len(det[d].duplicates), m \in 1..Len(det[d].duplicates) :
      /\ Cardinality(AppliedFactors(
           ListedRow(det[d], det[d].duplicates[k].originalCaseId),
           ListedRow(det[d], det[d].duplicates[k].duplicateCaseId))) = 1
      /\ AppliedFactors(
           ListedRow(det[d], det[d].duplicates[m].originalCaseId),
           ListedRow(det[d], det[d].duplicates[m].duplicateCaseId)) = FactorNames
      /\ det[d].duplicates[m].similarityScore # ROne

\* C20 as stated: when both cases of a candidate carry an age, an age of 0
\* included, the age factor takes part in its score with weight 0.2.
C20_AgeZeroTakesPart ==
  \A d \in Detectors : \A k \in 1..Len(det[d].duplicates) :
    LET dup == det[d].duplicates[k]
        case1 == ListedRow(det[d], dup.originalCaseId)
        case2 == ListedRow(det[d], dup.duplicateCaseId)
    IN (case1.age # NoAge /\ case2.age # NoAge) =>
         dup.similarityScore =
           ScoreOver(AppliedFactors(case1, case2) \cup {"age"}, case1, case2)

\* C21: every row of the registry has a similarityScore between 0 and 1, and a
\* row that enters the registry is inserted by the create step of the pass of its
\* detectedBy, with a score >= the threshold of that pass.
C21_ScoreInRangeAndAboveThreshold ==
  [][\A row2 \in registry' :
       /\ RGeq(row2.similarityScore, RZero)
       /\ RGeq(ROne, row2.similarityScore)
       /\ (\A row \in registry : row.id # row2.id) =>
            /\ row2.detectedBy \in Detectors
            /\ det[row2.detectedBy].pc = "create"
            /\ RGeq(row2.similarityScore, det[row2.detectedBy].threshold)]_vars

\* C21 witness: the registry holds a row with score 0 created by a pass with
\* threshold 0, and a row with a score strictly between 0 and 1.
C21_Witness ==
  /\ \E d \in Detectors : \E k \in 1..Len(det[d].createdDuplicates) :
       /\ det[d].createdDuplicates[k].similarityScore = RZero
       /\ det[d].threshold = RZero
       /\ det[d].createdDuplicates[k] \in registry
  /\ \E row \in registry :
       RGt(row.similarityScore, RZero) /\ RGt(ROne, row.similarityScore)

\* the recurrence d[i][0] = i, d[0][j] = j, d[i][j] = d[i-1][j-1] when the
\* characters match, 1 + min(d[i-1][j], d[i][j-1], d[i-1][j-1]) otherwise
RECURSIVE EditDistance(_, _, _, _)
EditDistance(a, b, i, j) ==
  IF i = 0 THEN j
  ELSE IF j = 0 THEN i
  ELSE IF a[i] = b[j] THEN EditDistance(a, b, i - 1, j - 1)
  ELSE 1 + Min3(EditDistance(a, b, i - 1, j), EditDistance(a, b, i, j - 1),
                EditDistance(a, b, i - 1, j - 1))

MaxOf(x, y) == IF x >= y THEN x ELSE y

\* (maxLen - distance) / maxLen by the recurrence
RecurrenceSimilarity(a, b) ==
  Rat(MaxOf(Len(a), Len(b)) - EditDistance(a, b, Len(a), Len(b)), MaxOf(Len(a), Len(b)))

\* the names a pass compared, as the handler passes them to calculateSimilarity
ListedNames(slot) == {toLowerCase(e.row.fullName) : e \in RowsOf(slot.cases)}

\* C22: for all names a, b of the listing of a pass, levenshteinDistance(a, b) is
\* the distance of the recurrence, calculateSimilarity(a, b) is (maxLen -
\* distance) / maxLen when one of them is not empty, and 0 when exactly one is
\* empty; the score of a candidate with two names holds that similarity with
\* weight 0.4.
C22_LevenshteinIsRecurrence ==
  \A d \in Detectors :
    /\ \A a \in ListedNames(det[d]), b \in ListedNames(det[d]) :
         /\ levenshteinDistance(a, b) = EditDistance(a, b, Len(a), Len(b))
         /\ (Len(a) > 0 \/ Len(b) > 0) =>
              calculateSimilarity(a, b) = RecurrenceSimilarity(a, b)
         /\ (Len(a) = 0 /\ Len(b) > 0) => calculateSimilarity(a, b) = RZero
    /\ \A k \in 1..Len(det[d].duplicates) :
         LET dup == det[d].duplicates[k]
             case1 == ListedRow(det[d], dup.originalCaseId)
             case2 == ListedRow(det[d], dup.duplicateCaseId)
             applied == AppliedFactors(case1, case2)
         IN "name" \in applied =>
              dup.similarityScore =
                RDiv(RAdd(RMul(<<2, 5>>,
                               RecurrenceSimilarity(toLowerCase(case1.fullName),
                                                    toLowerCase(case2.fullName))),
                          WeightedSum(applied \ {"name"}, case1, case2)),
                     SumOfWeights(applied))

\* C22 witness: a pass has finished that compared two names of different lengths
\* with a distance above 0 and below the longer length, and an empty name.
C22_Witness ==
  \E d \in Detectors :
    /\ det[d].pc = "done"
    /\ <<>> \in ListedNames(det[d])
    /\ \E k \in 1..Len(det[d].duplicates) :
         LET a == toLowerCase(ListedRow(det[d], det[d].duplicates[k].originalCaseId).fullName)
             b == toLowerCase(ListedRow(det[d], det[d].duplicates[k].duplicateCaseId).fullName)
         IN /\ Len(a) > 0 /\ Len(b) > 0 /\ Len(a) # Len(b)
            /\ levenshteinDistance(a, b) > 0
            /\ levenshteinDistance(a, b) < MaxOf(Len(a), Len(b))

\* C23: for every name s of the listing of a pass, the empty name included,
\* levenshteinDistance(s, s) = 0 and calculateSimilarity(s, s) = 1.
C23_SelfSimilarityIsOne ==
  \A d \in Detectors : \A s \in ListedNames(det[d]) :
    /\ levenshteinDistance(s, s) = 0
    /\ calculateSimilarity(s, s) = ROne

\* C23 witness: a pass has finished over a listing with an empty name and a name
\* of length MaxLen that holds a capital letter.
C23_Witness ==
  \E d \in Detectors :
    /\ det[d].pc = "done"
    /\ \E e \in RowsOf(det[d].cases) : e.row.fullName = <<>>
    /\ \E e \in RowsOf(det[d].cases) :
         /\ Len(e.row.fullName) = MaxLen
         /\ e.row.fullName \in NameStrings
         /\ \E k \in 1..MaxLen : e.row.fullName[k] = "A"

\* C24: for all names s1, s2 of the listing of a pass,
\* calculateSimilarity(s1, s2) = calculateSimilarity(s2, s1).
C24_SimilarityIsSymmetric ==
  \A d \in Detectors :
    \A s1 \in ListedNames(det[d]), s2 \in ListedNames(det[d]) :
      calculateSimilarity(s1, s2) = calculateSimilarity(s2, s1)

\* C24 witness: a pass has finished that compared two different names of the same
\* length, and two names of different lengths.
C24_Witness ==
  \E d \in Detectors :
    /\ det[d].pc = "done"
    /\ \E s1 \in ListedNames(det[d]), s2 \in ListedNames(det[d]) :
         s1 # s2 /\ Len(s1) = Len(s2) /\ Len(s1) > 0
    /\ \E s1 \in ListedNames(det[d]), s2 \in ListedNames(det[d]) :
         Len(s1) # Len(s2) /\ Len(s1) > 0 /\ Len(s2) > 0

\* C25: a row enters the registry in the create step of the pass of its
\* detectedBy, with status PENDENTE and resolvedBy, resolvedAt and
\* resolutionNotes empty; in every state a PENDENTE row has resolvedBy and
\* resolvedAt empty and any other row has both set.
C25_PendingIffUnresolved ==
  [][\A row2 \in registry' :
       /\ row2.status = PENDENTE => (row2.resolvedBy = Null /\ row2.resolvedAt = NoTime)
       /\ row2.status # PENDENTE => (row2.resolvedBy # Null /\ row2.resolvedAt # NoTime)
       /\ (\A row \in registry : row.id # row2.id) =>
            /\ row2.status = PENDENTE
            /\ row2.detectedBy \in Detectors
            /\ det[row2.detectedBy].pc = "create"
            /\ row2.resolvedBy = Null
            /\ row2.resolvedAt = NoTime
            /\ row2.resolutionNotes = Null]_vars

\* C25 witness: the registry holds a PENDENTE row and a row resolved by a moderator.
C25_Witness ==
  /\ \E row \in registry : row.status = PENDENTE /\ row.detectedBy \in Detectors
  /\ \E row \in registry : row.status # PENDENTE /\ row.resolvedBy \in Resolvers

\* the positions of the candidates of a pass whose two ids are x and y
CandidatesOf(slot, x, y) ==
  {k \in 1..Len(slot.duplicates) :
     {slot.duplicates[k].originalCaseId, slot.duplicates[k].duplicateCaseId} = {x, y}}

\* the position of a case id in the listing of a pass
PositionOf(slot, id) == CHOOSE i \in 1..Len(slot.cases) : slot.cases[i].id = id

\* C26: the step that lists and scores lists each approved case of that moment
\* once and no other case; every candidate names two different cases, the first
\* listed before the second; and every two listed cases have one candidate when
\* their score is >= the threshold and none otherwise, so never one in each order.
C26_EachPairScoredOnce ==
  [][\A d \in Detectors :
       (detectsStarted' = detectsStarted + 1 /\ det'[d] # det[d] /\ det'[d].error = Null) =>
         LET slot == det'[d]
             ids == {e.id : e \in RowsOf(slot.cases)}
         IN /\ ids = {c \in DOMAIN cases : cases[c].approved}
            /\ Cardinality(ids) = Len(slot.cases)
            /\ \A e \in RowsOf(slot.cases) : e.row = cases[e.id] /\ e.row.approved
            /\ \A k \in 1..Len(slot.duplicates) :
                 /\ slot.duplicates[k].originalCaseId \in ids
                 /\ slot.duplicates[k].duplicateCaseId \in ids
                 /\ slot.duplicates[k].originalCaseId # slot.duplicates[k].duplicateCaseId
                 /\ PositionOf(slot, slot.duplicates[k].originalCaseId) <
                      PositionOf(slot, slot.duplicates[k].duplicateCaseId)
            /\ \A x \in ids, y \in ids :
                 x # y =>
                   Cardinality(CandidatesOf(slot, x, y)) =
                     IF RGeq(finalScore(cases[x], cases[y]), slot.threshold) THEN 1 ELSE 0]_vars

\* C26 witness: a pass with threshold 0 has listed three cases and holds their
\* three candidates while a fourth case, not approved, is not listed.
C26_Witness ==
  \E d \in Detectors :
    /\ det[d].pc # "idle"
    /\ det[d].threshold = RZero
    /\ Len(det[d].cases) = 3
    /\ Len(det[d].duplicates) = 3
    /\ \E c \in DOMAIN cases :
         ~cases[c].approved /\ \A e \in RowsOf(det[d].cases) : e.id # c

\* two rows for the same two cases, one in each order
Reversed(x, y) ==
  x.originalCaseId = y.duplicateCaseId /\ x.duplicateCaseId = y.originalCaseId

\* C27: the registry can hold a row (A,B) and a row (B,A); when it does, the two
\* are different rows and A and B have the same createdAt, the one way the
\* listing order of two cases differs between two passes.
C27_ReversedPairsNeedListingChange ==
  \A x \in registry, y \in registry :
    Reversed(x, y) =>
      /\ x.id # y.id
      /\ x.originalCaseId # x.duplicateCaseId
      /\ cases[x.originalCaseId].createdAt = cases[x.duplicateCaseId].createdAt

\* C27 witness: the registry holds a row and the row of the same two cases in the
\* other order, created by a later pass.
C27_Witness ==
  \E x \in registry, y \in registry :
    /\ Reversed(x, y)
    /\ x.detectedAt < y.detectedAt
    /\ \E d \in Detectors :
         /\ det[d].pc = "done"
         /\ x \in det[d].startRegistry
         /\ y \in RowsOf(det[d].createdDuplicates)

\* the rows of the registry for two cases, in either order
RowsFor(reg, a, b) ==
  {row \in reg : PairOf(row) = <<a, b>> \/ PairOf(row) = <<b, a>>}

\* C28 as stated: when the two passes have listed the same cases and both have
\* answered, with the store up and no resolve in between, every two listed
\* cases whose score is >= the threshold of one of the passes have a row in
\* the registry.
C28_ConcurrentPassesRegisterAll ==
  \A d1 \in Detectors, d2 \in Detectors :
    (/\ d1 # d2
     /\ det[d1].pc \in {"done", "err"}
     /\ det[d2].pc \in {"done", "err"}
     /\ det[d1].error # "UNAVAILABLE"
     /\ det[d2].error # "UNAVAILABLE"
     /\ det[d1].cases = det[d2].cases
     /\ resolvesStarted = 0)
    => \A i \in 1..Len(det[d1].cases), j \in 1..Len(det[d1].cases) :
         (/\ i < j
          /\ RGeq(finalScore(det[d1].cases[i].row, det[d1].cases[j].row),
                  det[d1].threshold))
         => RowsFor(registry, det[d1].cases[i].id, det[d1].cases[j].id) # {}

\* the case has a row that is not marked deleted
CaseExists(cs, c) == c \in DOMAIN cs /\ ~cs[c].isDeleted

\* C29 as stated: a step that deletes a case, by the delete of a resolve or by
\* DELETE /:id of the case management, leaves no row of the registry that
\* names the case as original or as duplicate, whatever the status of the row.
C29_DeletedCaseTakesItsPairs ==
  [][\A c \in DOMAIN cases :
       (CaseExists(cases, c) /\ ~CaseExists(cases', c)) =>
         \A row \in registry' : row.originalCaseId # c /\ row.duplicateCaseId # c]_vars

\* two resolves to CONFIRMADO with deleteDuplicate, each of which has read its
\* row, on two rows with the same duplicateCaseId; both have answered and no
\* call of either met an unavailable store
ConfirmDeletePair(r1, r2) ==
  /\ r1 # r2
  /\ \A r \in {r1, r2} :
       /\ res[r].pc \in {"done", "err"}
       /\ res[r].status = CONFIRMADO
       /\ res[r].deleteDuplicate
       /\ res[r].id # 0
       /\ res[r].duplicate.id = res[r].id
       /\ res[r].error # "UNAVAILABLE"
  /\ res[r1].id # res[r2].id
  /\ res[r1].duplicate.duplicateCaseId = res[r2].duplicate.duplicateCaseId

\* C30: after two such resolves the case they share is gone, the audit log has
\* one DELETE_DUPLICATE_CASE entry for it, written by the resolve that answered
\* 200, and the other resolve answered with an error.
C30_SharedCaseDeletedOnce ==
  \A r1 \in Resolvers, r2 \in Resolvers :
    ConfirmDeletePair(r1, r2) =>
      LET c == res[r1].duplicate.duplicateCaseId IN
      /\ c \notin DOMAIN cases
      /\ Cardinality(DeletionEntries(c)) = 1
      /\ ~(res[r1].pc = "done" /\ res[r2].pc = "done")
      /\ \A k \in DeletionEntries(c) :
           \E r \in {r1, r2} : res[r].pc = "done" /\ auditLogs[k].userId = r

\* C30 witness: both resolves updated their rows before either delete; one has
\* deleted the case and answered 200, the delete of the other found no case.
C30_Witness ==
  \E r1 \in Resolvers, r2 \in Resolvers :
    /\ ConfirmDeletePair(r1, r2)
    /\ res[r1].pc = "done"
    /\ res[r2].pc = "err"
    /\ res[r2].error = "P2025"
    /\ res[r2].failedCall = "missingPerson.delete"
    /\ res[r1].duplicate.duplicateCaseId \notin DOMAIN cases

====
